---- MODULE Spec2Model ----
(***************************************************************************)
(* Model of revImgSearch.py: a metadata store (sqlite table "image" in     *)
(* img.db), a persisted BK-tree index (bk_tree.pkl) and the runs of main   *)
(* that keep the two in step with the image files on disk.                 *)
(*                                                                         *)
(* Fingerprints (hash_hex) are strings of hex digits, modelled as          *)
(* sequences of digit values 0..15.  Directories and file names are        *)
(* modelled as small integers ordered like the strings they stand for.     *)
(***************************************************************************)
EXTENDS Integers, Sequences, FiniteSets, Bags, TLC

\* ------------------------------------------------------------------------
\* Bounds of the model
\* ------------------------------------------------------------------------

\* Largest distance_threshold a search asks for.
MaxRadius == 2

\* Largest number of entries added to the tree in SpecTree.
MaxEntries == 3

\* MiB to byte (XBYTES).
XBYTES == 1048576

\* ------------------------------------------------------------------------
\* Generic helpers
\* ------------------------------------------------------------------------

Min(a, b) == IF a <= b THEN a ELSE b

Max(a, b) == IF a >= b THEN a ELSE b

Range(s) == {s[i] : i \in DOMAIN s}

\* The bag of the elements of a sequence.
RECURSIVE BagOfSeq(_)
BagOfSeq(s) ==
    IF s = <<>> THEN EmptyBag
    ELSE BagOfSeq(Tail(s)) (+) SetToBag({Head(s)})

\* The elements of a set of integers in ascending order.
RECURSIVE AscSeq(_)
AscSeq(S) ==
    IF S = {} THEN <<>>
    ELSE LET m == CHOOSE x \in S : \A y \in S : x <= y
         IN  <<m>> \o AscSeq(S \ {m})

\* ------------------------------------------------------------------------
\* Img namedtuple and the string distance
\* ------------------------------------------------------------------------

\* Img = namedtuple("Img", ["hash_hex", "directory", "filename"])
Img(h, d, f) == [hash_hex |-> h, directory |-> d, filename |-> f]

\* A mutant of the distance: the length difference is not counted.
HammingUnpadded(s1, s2) ==
    Cardinality({i \in 1..Min(Len(s1), Len(s2)) : s1[i] # s2[i]})

\* A mutant of the distance: the length difference is counted only when the
\* first string is the longer one.
HammingPadFirst(s1, s2) ==
    Cardinality({i \in 1..Min(Len(s1), Len(s2)) : s1[i] # s2[i]})
        + Max(Len(s1) - Len(s2), 0)

\* Levenshtein.hamming(s1, s2, pad=True): the number of positions of the
\* common prefix at which the characters differ, plus the length difference.
LevenshteinHamming(s1, s2) ==
    Cardinality({i \in 1..Min(Len(s1), Len(s2)) : s1[i] # s2[i]})
        + (Max(Len(s1), Len(s2)) - Min(Len(s1), Len(s2)))

\* _hamming(str1, str2): the distance of two Img, on their hash_hex.
_hamming(str1, str2) == LevenshteinHamming(str1.hash_hex, str2.hash_hex)

\* ------------------------------------------------------------------------
\* pybktree.BKTree, as used by buildBKTree / findInBKTree.
\* The tree is an arena: a sequence of nodes, node 1 the root, each node an
\* item and its children, a function from edge label (distance) to the
\* index of the child node.  The empty sequence is the empty tree.
\* ------------------------------------------------------------------------

EmptyTree == <<>>

Leaf(item) == [item |-> item, children |-> <<>>]

\* BKTree.add(item): walk down from node n along the edge labelled with the
\* distance to the node's item; attach a leaf where no such edge exists.
RECURSIVE AddAt(_, _, _)
AddAt(t, n, item) ==
    LET d == _hamming(item, t[n].item)
    IN  IF d \in DOMAIN t[n].children
        THEN AddAt(t, t[n].children[d], item)
        ELSE LET k == Len(t) + 1
             IN  Append([t EXCEPT ![n].children = (d :> k) @@ @], Leaf(item))

add2BKTree(t, item) ==
    IF t = EmptyTree THEN <<Leaf(item)>> ELSE AddAt(t, 1, item)

\* pybktree.BKTree(distance_func, items): add every item in order.
RECURSIVE BKTree(_, _)
BKTree(t, items) ==
    IF items = <<>> THEN t
    ELSE BKTree(add2BKTree(t, Head(items)), Tail(items))

\* Iterating a BKTree yields every item it holds.
TreeItems(t) == {t[n].item : n \in DOMAIN t}

\* Order of Python strings of hex digits, as sequences of digit values.
RECURSIVE StrLess(_, _)
StrLess(a, b) ==
    IF b = <<>> THEN FALSE
    ELSE IF a = <<>> THEN TRUE
    ELSE IF Head(a) # Head(b) THEN Head(a) < Head(b)
    ELSE StrLess(Tail(a), Tail(b))

\* Order of the (distance, Img) tuples that find() sorts.
PairLess(p, q) ==
    \/ p[1] < q[1]
    \/ /\ p[1] = q[1]
       /\ \/ StrLess(p[2].hash_hex, q[2].hash_hex)
          \/ /\ p[2].hash_hex = q[2].hash_hex
             /\ \/ p[2].directory < q[2].directory
                \/ /\ p[2].directory = q[2].directory
                   /\ p[2].filename < q[2].filename

\* list.sort(): a stable insertion sort.
RECURSIVE InsertSorted(_, _)
InsertSorted(s, p) ==
    IF s = <<>> THEN <<p>>
    ELSE IF PairLess(p, Head(s)) THEN <<p>> \o s
    ELSE <<Head(s)>> \o InsertSorted(Tail(s), p)

RECURSIVE SortPairs(_, _)
SortPairs(acc, s) ==
    IF s = <<>> THEN acc
    ELSE SortPairs(InsertSorted(acc, Head(s)), Tail(s))

\* A mutant of the band below: both comparisons strict.
BandStrict(node, distance, radius) ==
    {node.children[c] : c \in {c \in DOMAIN node.children :
        distance - radius < c /\ c < distance + radius}}

\* The children of a node that find() descends into: those whose edge
\* label c satisfies distance - n <= c <= distance + n.
Band(node, distance, radius) ==
    {node.children[c] : c \in {c \in DOMAIN node.children :
        distance - radius <= c /\ c <= distance + radius}}

\* BKTree.find(item, n): breadth-first over the candidates queue.
RECURSIVE FindLoop(_, _, _, _, _)
FindLoop(t, candidates, item, radius, found) ==
    IF candidates = <<>> THEN found
    ELSE LET node == t[Head(candidates)]
             distance == _hamming(node.item, item)
             hit == IF distance <= radius
                    THEN Append(found, <<distance, node.item>>)
                    ELSE found
         IN  FindLoop(t,
                      Tail(candidates) \o AscSeq(Band(node, distance, radius)),
                      item, radius, hit)

\* findInBKTree(bk_tree, hash_hex, dist_thres): a sorted list of
\* (distance, Img) pairs.
findInBKTree(t, hash_hex, dist_thres) ==
    IF t = EmptyTree THEN <<>>
    ELSE SortPairs(<<>>, FindLoop(t, <<1>>, Img(hash_hex, 0, 0), dist_thres, <<>>))

\* ------------------------------------------------------------------------
\* The environment: image files, configuration values
\* ------------------------------------------------------------------------

\* Composite keys (directory, filename) of the image files that may exist.
\* Directory 2 is a subdirectory of directory 1.
Keys == {<<1, 1>>, <<2, 1>>}

\* What a file may be: missing, a readable image with one of two contents,
\* or a file that PIL cannot open.
Contents == {"none", "c1", "c2", "bad"}

\* The contents each file takes in the model: only the file of directory 1
\* is ever rewritten with the second content.
ContentsOf(k) == IF k = <<1, 1>> THEN Contents ELSE Contents \ {"c2"}

\* Values of params["img_dirs"]: one directory, or two that overlap.
DirLists == {<<1>>, <<2, 1>>}

Operations == {"build", "update", "search", "other"}

\* What params.json may look like: complete and valid, a required key
\* missing, or a method name that is not implemented.
Configs == {"ok", "no_hash_method", "no_db_dir", "no_bk_dir",
            "no_distance_method", "bad_distance_method", "bad_hash_method"}

\* Files found in the input directory of a search, by content.
InputLists == {<<>>, <<"c1">>, <<"c2", "c1">>, <<"c1", "bad">>}

\* getPILImage(fpath): Image.open raises on a file it cannot read.
Readable(c) == c \in {"c1", "c2"}

\* str(hashFunc(getPILImage(fpath))): the hex string of the image's hash.
\* getHashFunc falls back to dhash for an unknown method, so the hash of a
\* content is the same under "ok" and "bad_hash_method".
HashHex(c) == IF c = "c1" THEN <<0, 0>> ELSE <<0, 1>>

\* os.path.getsize(fpath), in bytes.
GetSize(c) == IF c = "c1" THEN XBYTES ELSE 2 * XBYTES

\* os.walk(top_dir), top-down: the files of the directory, then those of
\* its subdirectories.
WalkOrder(top_dir) ==
    IF top_dir = 1 THEN << <<1, 1>>, <<2, 1>> >> ELSE << <<2, 1>> >>

\* getAllImagePaths(top_dir, relative=False)
getAllImagePaths(fsys, top_dir) ==
    SelectSeq(WalkOrder(top_dir), LAMBDA k : fsys[k] # "none")

\* ------------------------------------------------------------------------
\* The metadata store img.db
\* ------------------------------------------------------------------------

\* file: "absent" (no img.db), "empty" (img.db without the image table),
\* "ok" (img.db with the image table); rows: the table, keyed by
\* (directory, filename).
NoDb == [file |-> "absent", rows |-> <<>>]

EmptyDbFile == [file |-> "empty", rows |-> <<>>]

\* A row's columns besides its key.
Row(h, s, p) == [hash_hex |-> h, filesize |-> s, present |-> p]

\* SELECT hash_hex, directory, filename FROM image, as a set of Img.
DbImgs(d) == {Img(d.rows[k].hash_hex, k[1], k[2]) : k \in DOMAIN d.rows}

\* The result of a handler: the store (or index) it leaves, the error it
\* raised ("none" when it returned), the file the error is about, and the
\* branch it took.
Res(v, e, k, path) == [val |-> v, err |-> e, key |-> k, path |-> path]

NoKey == <<>>

\* createTable(db_dir): delete img.db if it exists, create the table (a
\* mutant creates the table only if img.db lacks it and keeps the rows).
createTableKeeps(d) == [d EXCEPT !.file = "ok"]

createTable(d) == [file |-> "ok", rows |-> <<>>]

\* insertData2Table(rows, db_dir): executemany in one transaction; a
\* primary-key conflict raises and nothing of the batch is committed.
\* rows is a sequence of <<key, row>>.
insertData2Table(d, rows) ==
    IF rows = <<>> THEN Res(d, "none", NoKey, "build")
    ELSE IF \/ \E i \in DOMAIN rows : rows[i][1] \in DOMAIN d.rows
            \/ \E i, j \in DOMAIN rows : i # j /\ rows[i][1] = rows[j][1]
    THEN Res(d, "InsertError", NoKey, "build")
    ELSE Res([d EXCEPT !.rows =
                 [k \in {rows[i][1] : i \in DOMAIN rows} |->
                     rows[CHOOSE i \in DOMAIN rows : rows[i][1] = k][2]] @@ @],
             "none", NoKey, "build")

\* The rows buildDatabase makes of the files of one directory.
BuildRows(fsys, fpaths) ==
    [i \in DOMAIN fpaths |->
        <<fpaths[i],
          Row(HashHex(fsys[fpaths[i]]), GetSize(fsys[fpaths[i]]) \div XBYTES, TRUE)>>]

\* The loop of buildDatabase over params["img_dirs"]: hash every file of a
\* directory, then insert the directory's rows.
RECURSIVE BuildDirs(_, _, _)
BuildDirs(d, fsys, dirs) ==
    IF dirs = <<>> THEN Res(d, "none", NoKey, "build")
    ELSE LET fpaths == getAllImagePaths(fsys, Head(dirs))
             unread == {i \in DOMAIN fpaths : ~Readable(fsys[fpaths[i]])}
         IN  IF unread # {}
             THEN Res(d, "HashError",
                      fpaths[CHOOSE i \in unread : \A j \in unread : i <= j],
                      "build")
             ELSE LET ins == insertData2Table(d, BuildRows(fsys, fpaths))
                  IN  IF ins.err # "none" THEN ins
                      ELSE BuildDirs(ins.val, fsys, Tail(dirs))

\* buildDatabase(params, hashFunc)
buildDatabase(p, fsys, d) ==
    IF p.cfg = "no_db_dir" THEN Res(d, "KeyError", NoKey, "build")
    ELSE BuildDirs(createTable(d), fsys, p.img_dirs)

\* UPDATE image SET present=FALSE;
\* A mutant of the first statement of the incremental pass: no row is
\* marked absent.
MarkAllAbsentNone(rows) == rows

MarkAllAbsent(rows) == [k \in DOMAIN rows |-> [rows[k] EXCEPT !.present = FALSE]]

\* The loop body of updateDatabase for one live file: a key already in the
\* table is marked present (a mutant leaves it unmarked).
MarkFoundSkip(rows, k) == rows

MarkFound(rows, k) == [rows EXCEPT ![k].present = TRUE]

\* A mutant of the loop of updateDatabase: every live file is hashed and its
\* record written, whether its key is known or not.
RECURSIVE UpdateFilesRehash(_, _, _)
UpdateFilesRehash(rows, fsys, fpaths) ==
    IF fpaths = <<>> THEN Res(rows, "none", NoKey, "incremental")
    ELSE LET compKey == Head(fpaths)
         IN  IF ~Readable(fsys[compKey])
             THEN Res(rows, "HashError", compKey, "incremental")
             ELSE UpdateFilesRehash(
                     (compKey :> Row(HashHex(fsys[compKey]),
                                     GetSize(fsys[compKey]) \div XBYTES, TRUE))
                         @@ rows,
                     fsys, Tail(fpaths))

\* The loop of updateDatabase over the files of one directory, inside the
\* open transaction: mark a known key present; hash and insert a new one.
RECURSIVE UpdateFiles(_, _, _)
UpdateFiles(rows, fsys, fpaths) ==
    IF fpaths = <<>> THEN Res(rows, "none", NoKey, "incremental")
    ELSE LET compKey == Head(fpaths)
         IN  IF compKey \in DOMAIN rows
             THEN UpdateFiles(MarkFound(rows, compKey), fsys, Tail(fpaths))
             ELSE IF ~Readable(fsys[compKey])
             THEN Res(rows, "HashError", compKey, "incremental")
             ELSE UpdateFiles(
                     (compKey :> Row(HashHex(fsys[compKey]),
                                     GetSize(fsys[compKey]) \div XBYTES, TRUE))
                         @@ rows,
                     fsys, Tail(fpaths))

RECURSIVE UpdateDirs(_, _, _)
UpdateDirs(rows, fsys, dirs) ==
    IF dirs = <<>> THEN Res(rows, "none", NoKey, "incremental")
    ELSE LET r == UpdateFiles(rows, fsys, getAllImagePaths(fsys, Head(dirs)))
         IN  IF r.err # "none" THEN r
             ELSE UpdateDirs(r.val, fsys, Tail(dirs))

\* DELETE FROM image WHERE present=FALSE; (a mutant deletes nothing)
DeleteAbsentKeeps(rows) == rows

DeleteAbsent(rows) ==
    [k \in {k \in DOMAIN rows : rows[k].present} |-> rows[k]]

\* What an exception in updateDatabase leaves of img.db: con.commit() is
\* the last statement, so the open transaction is discarded (a mutant
\* commits the statements executed so far).
RollbackKeeps(d, rows) == [d EXCEPT !.rows = rows]

\* A mutant of the rollback: the first statement of the pass, which marks
\* every row absent, stays.
RollbackMarked(d, rows) == [d EXCEPT !.rows = MarkAllAbsent(d.rows)]

Rollback(d, rows) == d

\* updateDatabase(params, hashFunc, del_absent)
updateDatabase(p, fsys, d) ==
    IF p.cfg = "no_db_dir" THEN Res(d, "KeyError", NoKey, "none")
    ELSE IF d.file = "absent" THEN buildDatabase(p, fsys, d)
    ELSE IF d.file = "empty" THEN Res(d, "NoTable", NoKey, "incremental")
    ELSE LET r == UpdateDirs(MarkAllAbsent(d.rows), fsys, p.img_dirs)
         IN  IF r.err # "none"
             THEN Res(Rollback(d, r.val), r.err, r.key, "incremental")
             ELSE Res([d EXCEPT !.rows = IF p.del_absent
                                         THEN DeleteAbsent(r.val)
                                         ELSE r.val],
                      "none", NoKey, "incremental")

\* ------------------------------------------------------------------------
\* The persisted index bk_tree.pkl
\* ------------------------------------------------------------------------

\* file: "absent" (no bk_tree.pkl), "corrupt" (a file pickle cannot load),
\* "ok" (a pickled tree); tree: the pickled tree.
NoBk == [file |-> "absent", tree |-> EmptyTree]

CorruptBk == [file |-> "corrupt", tree |-> EmptyTree]

\* The orders in which SELECT may return the rows of a table.
Orders(S) ==
    {o \in [1..Cardinality(S) -> S] : \A i, j \in DOMAIN o : i # j => o[i] # o[j]}

\* getStrDistFunc(method): only "hamming" is implemented.
getStrDistFuncFails(p) == p.cfg = "bad_distance_method"

\* savePKL(dir_out, fname, file): open(..., "wb") truncates the file, then
\* pickle.dump writes it; a failed write leaves a file that does not load.
savePKL(tree, writeOk) ==
    IF writeOk THEN Res([file |-> "ok", tree |-> tree], "none", NoKey, "build")
    ELSE Res(CorruptBk, "StorageError", NoKey, "build")

\* What sqlite3.connect(img.db) leaves of the store: it creates an empty
\* file when there is none.
Connect(d) == IF d.file = "absent" THEN EmptyDbFile ELSE d

\* buildBKTree(params, dist_method): the result holds the store and the
\* index it leaves.  imgs is the rows in the order SELECT returned them.
buildBKTree(p, d, b, imgs, writeOk) ==
    IF p.cfg = "no_db_dir" THEN Res([db |-> d, bk |-> b], "KeyError", NoKey, "build")
    ELSE IF d.file # "ok"
    THEN Res([db |-> Connect(d), bk |-> b], "NoTable", NoKey, "build")
    ELSE IF getStrDistFuncFails(p)
    THEN Res([db |-> d, bk |-> b], "NotImplementedError", NoKey, "build")
    ELSE LET s == savePKL(BKTree(EmptyTree, imgs), writeOk)
         IN  Res([db |-> d, bk |-> s.val], s.err, NoKey, "build")

\* The comparison of updateBKTree: rebuild when the two sets differ (a
\* mutant rebuilds only when the index lacks an image of the store).
NeedsRebuildSubset(imgs_bk, imgs_db) == ~(imgs_db \subseteq imgs_bk)

\* A mutant of the comparison: the index is rebuilt on every run.
NeedsRebuildAlways(imgs_bk, imgs_db) == TRUE

NeedsRebuild(imgs_bk, imgs_db) == imgs_bk # imgs_db

\* A mutant of updateBKTree: a missing index file is left missing.
updateBKTreeSkipsMissing(p, d, b, imgs, writeOk) ==
    IF p.cfg \in {"no_distance_method", "no_bk_dir"}
    THEN Res([db |-> d, bk |-> b], "KeyError", NoKey, "none")
    ELSE IF b.file = "absent"
    THEN Res([db |-> d, bk |-> b], "none", NoKey, "missing")
    ELSE IF b.file = "corrupt"
    THEN Res([db |-> d, bk |-> b], "UnpicklingError", NoKey, "load")
    ELSE IF p.cfg = "no_db_dir"
    THEN Res([db |-> d, bk |-> b], "KeyError", NoKey, "load")
    ELSE IF d.file # "ok"
    THEN Res([db |-> Connect(d), bk |-> b], "NoTable", NoKey, "load")
    ELSE IF NeedsRebuild(TreeItems(b.tree), DbImgs(d))
    THEN [buildBKTree(p, d, b, imgs, writeOk) EXCEPT !.path = "mismatch"]
    ELSE Res([db |-> d, bk |-> b], "none", NoKey, "match")

\* updateBKTree(params, dist_method=params["distance_method"])
updateBKTree(p, d, b, imgs, writeOk) ==
    IF p.cfg \in {"no_distance_method", "no_bk_dir"}
    THEN Res([db |-> d, bk |-> b], "KeyError", NoKey, "none")
    ELSE IF b.file = "absent"
    THEN [buildBKTree(p, d, b, imgs, writeOk) EXCEPT !.path = "missing"]
    ELSE IF b.file = "corrupt"
    THEN Res([db |-> d, bk |-> b], "UnpicklingError", NoKey, "load")
    ELSE IF p.cfg = "no_db_dir"
    THEN Res([db |-> d, bk |-> b], "KeyError", NoKey, "load")
    ELSE IF d.file # "ok"
    THEN Res([db |-> Connect(d), bk |-> b], "NoTable", NoKey, "load")
    ELSE IF NeedsRebuild(TreeItems(b.tree), DbImgs(d))
    THEN [buildBKTree(p, d, b, imgs, writeOk) EXCEPT !.path = "mismatch"]
    ELSE Res([db |-> d, bk |-> b], "none", NoKey, "match")

\* ------------------------------------------------------------------------
\* Search
\* ------------------------------------------------------------------------

\* hexes = list(hex2path.keys()): the distinct hashes of the input files,
\* in the order first seen.
RECURSIVE Hexes(_, _)
Hexes(inputs, seen) ==
    IF inputs = <<>> THEN seen
    ELSE Hexes(Tail(inputs),
               IF HashHex(Head(inputs)) \in Range(seen) THEN seen
               ELSE Append(seen, HashHex(Head(inputs))))

\* The (directory, filename) pairs of a list of (distance, Img) pairs.
Locations(fs_) == [i \in DOMAIN fs_ |-> <<fs_[i][2].directory, fs_[i][2].filename>>]

\* SELECT directory, filename, hash_hex FROM image WHERE hash_hex IN (...),
\* the rows taken in the order imgs, then grouped by hash.
ExactMatches(imgs, h) ==
    LET hit == SelectSeq(imgs, LAMBDA e : e.hash_hex = h)
    IN  [i \in DOMAIN hit |-> <<hit[i].directory, hit[i].filename>>]

\* searchByImages(params, hashFunc, always_tree): the result holds the
\* store and the index it leaves and hex2found.
searchByImages(p, inputs, d, b, always_tree, imgs, writeOk) ==
    LET hexes == Hexes(inputs, <<>>)
        same(dd, bb, e, path) ==
            Res([db |-> dd, bk |-> bb, found |-> <<>>], e, NoKey, path)
    IN  IF \E i \in DOMAIN inputs : ~Readable(inputs[i])
        THEN same(d, b, "HashError", "none")
        ELSE IF p.distance_threshold = 0 /\ ~always_tree
        THEN IF d.file = "absent" THEN same(d, b, "AssertionError", "exact")
             ELSE IF d.file = "empty" THEN same(d, b, "NoTable", "exact")
             ELSE Res([db |-> d, bk |-> b,
                       found |-> [h \in Range(hexes) |-> ExactMatches(imgs, h)]],
                      "none", NoKey, "exact")
        ELSE LET built == IF b.file = "absent"
                          THEN buildBKTree(p, d, b, imgs, writeOk)
                          ELSE Res([db |-> d, bk |-> b], "none", NoKey, "tree")
             IN  IF built.err # "none"
                 THEN same(built.val.db, built.val.bk, built.err, "tree")
                 ELSE IF built.val.bk.file = "corrupt"
                 THEN same(built.val.db, built.val.bk, "UnpicklingError", "tree")
                 ELSE Res([db |-> built.val.db, bk |-> built.val.bk,
                           found |-> [h \in Range(hexes) |->
                               Locations(findInBKTree(built.val.bk.tree, h,
                                                      p.distance_threshold))]],
                          "none", NoKey, "tree")

\* ------------------------------------------------------------------------
\* State
\* ------------------------------------------------------------------------

VARIABLES
    fs,        \* the image files on disk: key -> content
    db,        \* img.db
    bk,        \* bk_tree.pkl
    pc,        \* where the current run of main stands
    params,    \* the parameters of the current run
    run,       \* what the current run did so far
    found,     \* hex2found of the current run's search
    tree,      \* SpecTree: a BK-tree
    inserted,  \* SpecTree: the entries added to it, in order
    query,     \* SpecTree: the last query
    result,    \* SpecTree: what the last query returned
    args,      \* SpecDist: the fingerprints last measured
    dist       \* SpecDist: the distances measured between them

vars == <<fs, db, bk, pc, params, run, found,
          tree, inserted, query, result, args, dist>>

treeVars == <<tree, inserted, query, result>>

distVars == <<args, dist>>

mainVars == <<fs, db, bk, pc, params, run, found>>

NoParams ==
    [operation |-> "none", img_dirs |-> <<>>, cfg |-> "ok",
     del_absent |-> TRUE, distance_threshold |-> 0]

NoRun ==
    [err |-> "none", step |-> "none", key |-> NoKey, dbPath |-> "none",
     dbDone |-> FALSE, bkPath |-> "none", searchPath |-> "none",
     had |-> {}]

\* The keys that have a present record in the store d and an entry in the
\* index b.
Indexed(d, b) ==
    {k \in DOMAIN d.rows :
        /\ d.rows[k].present
        /\ b.file = "ok"
        /\ \E e \in TreeItems(b.tree) : <<e.directory, e.filename>> = k}

NoQuery == [target |-> <<>>, radius |-> 0, asked |-> FALSE]

NoDist == [ab |-> 0, ba |-> 0, aa |-> 0, ac |-> 0, bc |-> 0]

\* The default parameters of getParams.
Params(op, ds, c, del, thr) ==
    [operation |-> op, img_dirs |-> ds, cfg |-> c,
     del_absent |-> del, distance_threshold |-> thr]

\* The configurations under which step 2 of main reads params["img_dirs"],
\* and those under which step 4 is reached.
ReadsDirs == Configs \ {"no_hash_method", "no_db_dir"}

ReachesSearch == {"ok", "bad_distance_method", "bad_hash_method"}

\* The parameter sets a run may start with.  A parameter that the run never
\* reads (it fails before, or its operation does not use it) keeps one value.
ParamSets ==
    {Params("build", ds, c, TRUE, 0) : ds \in DirLists, c \in ReadsDirs}
    \cup
    {Params("update", x[1], x[2], x[3], 0) : x \in DirLists \X ReadsDirs \X BOOLEAN}
    \cup
    {Params("search", <<1>>, x[1], TRUE, x[2]) : x \in ReachesSearch \X (0..MaxRadius)}
    \cup
    {Params("search", <<1>>, c, TRUE, 0) : c \in Configs \ ReachesSearch}
    \cup
    {Params(op, <<1>>, "no_db_dir", TRUE, 0) : op \in {"build", "update"}}
    \cup
    {Params("build", <<1>>, "no_hash_method", TRUE, 0)}
    \cup
    {Params("other", <<1>>, c, TRUE, 0) : c \in Configs \ {"no_hash_method"}}

Init ==
    /\ fs = [k \in Keys |-> "none"]
    /\ db = NoDb
    /\ bk = NoBk
    /\ pc = "idle"
    /\ params = NoParams
    /\ run = NoRun
    /\ found = <<>>
    /\ tree = EmptyTree
    /\ inserted = <<>>
    /\ query = NoQuery
    /\ result = <<>>
    /\ args = <<>>
    /\ dist = NoDist

\* ------------------------------------------------------------------------
\* Actions of the main specification
\* ------------------------------------------------------------------------

\* Between runs, an image file is created, removed or rewritten.
FsChange ==
    /\ pc = "idle"
    /\ \E k \in Keys : \E c \in ContentsOf(k) :
        /\ fs[k] # c
        /\ fs' = [fs EXCEPT ![k] = c]
    /\ UNCHANGED <<db, bk, pc, params, run, found, treeVars, distVars>>

\* main, step 1: getParams and getHashFunc.  A missing hash_method key
\* raises KeyError; an unknown hash method falls back to dhash.
Start ==
    /\ pc = "idle"
    /\ \E p \in ParamSets :
        /\ params' = p
        /\ IF p.cfg = "no_hash_method"
           THEN /\ pc' = "failed"
                /\ run' = [NoRun EXCEPT !.err = "KeyError", !.step = "start"]
           ELSE /\ pc' = "db"
                /\ run' = [NoRun EXCEPT !.step = "start",
                                        !.had = Indexed(db, bk)]
    /\ UNCHANGED <<fs, db, bk, found, treeVars, distVars>>

\* The end of the database step with result r.
DbStep(r) ==
    /\ db' = r.val
    /\ run' = [run EXCEPT !.err = r.err, !.step = "db", !.key = r.key,
                          !.dbPath = r.path, !.dbDone = (r.err = "none")]
    /\ pc' = IF r.err = "none" THEN "bk" ELSE "failed"
    /\ UNCHANGED <<fs, bk, params, found, treeVars, distVars>>

\* main, step 2, operation "build".
BuildDatabase ==
    /\ pc = "db"
    /\ params.operation = "build"
    /\ DbStep(buildDatabase(params, fs, db))

\* main, step 2, operation "update".
UpdateDatabase ==
    /\ pc = "db"
    /\ params.operation = "update"
    /\ DbStep(updateDatabase(params, fs, db))

\* main, step 2, any other operation: the store is not touched.
SkipDatabase ==
    /\ pc = "db"
    /\ params.operation \notin {"build", "update"}
    /\ pc' = "bk"
    /\ run' = [run EXCEPT !.step = "db"]
    /\ UNCHANGED <<fs, db, bk, params, found, treeVars, distVars>>

\* main, step 3: updateBKTree.
UpdateBKTree ==
    /\ pc = "bk"
    /\ \E imgs \in Orders(DbImgs(db)), writeOk \in BOOLEAN :
        LET r == updateBKTree(params, db, bk, imgs, writeOk)
        IN  /\ db' = r.val.db
            /\ bk' = r.val.bk
            /\ run' = [run EXCEPT !.err = r.err, !.step = "bk", !.bkPath = r.path]
            /\ pc' = IF r.err # "none" THEN "failed"
                     ELSE IF params.operation = "search" THEN "search"
                     ELSE "done"
    /\ UNCHANGED <<fs, params, found, treeVars, distVars>>

\* main, step 4: searchByImages and saveMatches2csv.
SearchByImages ==
    /\ pc = "search"
    /\ \E inputs \in InputLists, always_tree \in BOOLEAN,
          imgs \in Orders(DbImgs(db)), writeOk \in BOOLEAN :
        LET r == searchByImages(params, inputs, db, bk, always_tree, imgs, writeOk)
        IN  /\ db' = r.val.db
            /\ bk' = r.val.bk
            /\ found' = r.val.found
            /\ run' = [run EXCEPT !.err = r.err, !.step = "search",
                                  !.searchPath = r.path]
            /\ pc' = IF r.err # "none" THEN "failed" ELSE "done"
    /\ UNCHANGED <<fs, params, treeVars, distVars>>

\* The run of main ends, normally or with its exception.
Exit ==
    /\ pc \in {"done", "failed"}
    /\ pc' = "idle"
    /\ params' = NoParams
    /\ run' = NoRun
    /\ found' = <<>>
    /\ UNCHANGED <<fs, db, bk, treeVars, distVars>>

Next ==
    \/ FsChange
    \/ Start
    \/ BuildDatabase
    \/ UpdateDatabase
    \/ SkipDatabase
    \/ UpdateBKTree
    \/ SearchByImages
    \/ Exit

Spec == Init /\ [][Next]_vars

\* ------------------------------------------------------------------------
\* SpecTree: the BK-tree alone, under any sequence of additions and queries
\* ------------------------------------------------------------------------

\* Fingerprints of the tree under test: "0", "00", "01", "ff".
TreeHashes == {<<0>>, <<0, 0>>, <<0, 1>>, <<15, 15>>}

TreeEntries == {Img(h, k[1], k[2]) : h \in TreeHashes, k \in Keys}

\* add2BKTree(bk_tree, hash_hex, directory, filename)
TreeAdd ==
    /\ Len(inserted) < MaxEntries
    /\ \E e \in TreeEntries :
        /\ tree' = add2BKTree(tree, e)
        /\ inserted' = Append(inserted, e)
    /\ query' = NoQuery
    /\ result' = <<>>
    /\ UNCHANGED <<mainVars, distVars>>

\* findInBKTree(bk_tree, hash_hex, dist_thres=radius)
TreeFind ==
    /\ \E t \in TreeHashes, r \in 0..MaxRadius :
        /\ query' = [target |-> t, radius |-> r, asked |-> TRUE]
        /\ result' = findInBKTree(tree, t, r)
    /\ UNCHANGED <<tree, inserted, mainVars, distVars>>

NextTree ==
    \/ TreeAdd
    \/ TreeFind

SpecTree == Init /\ [][NextTree]_vars

\* ------------------------------------------------------------------------
\* The distance specification: _hamming applied to fingerprints of one or
\* two hex digits.
\* ------------------------------------------------------------------------

DistDigits == {0, 1, 15}

DistHashes ==
    {<<x>> : x \in DistDigits} \cup {<<x, y>> : x \in DistDigits, y \in DistDigits}

\* getStrDistFunc("hamming") applied to pairs out of three fingerprints.
Measure ==
    /\ \E a \in DistHashes, b \in DistHashes, c \in DistHashes :
        /\ args' = <<a, b, c>>
        /\ dist' = [ab |-> _hamming(Img(a, 1, 1), Img(b, 2, 1)),
                    ba |-> _hamming(Img(b, 2, 1), Img(a, 1, 1)),
                    aa |-> _hamming(Img(a, 1, 1), Img(a, 2, 1)),
                    ac |-> _hamming(Img(a, 1, 1), Img(c, 2, 1)),
                    bc |-> _hamming(Img(b, 1, 1), Img(c, 2, 1))]
    /\ UNCHANGED <<mainVars, treeVars>>

NextDist == Measure

SpecDist == Init /\ [][NextDist]_vars

\* ------------------------------------------------------------------------
\* Claims
\* ------------------------------------------------------------------------

\* The entries of a sequence within radius of target, with their distance:
\* the linear scan a query is compared with.
LinearScan(entries, target, radius) ==
    LET near == SelectSeq(entries,
                    LAMBDA e : LevenshteinHamming(target, e.hash_hex) <= radius)
    IN  [i \in DOMAIN near |->
            <<LevenshteinHamming(target, near[i].hash_hex), near[i]>>]

\* C3: a query of the tree built from the entries E returns exactly the
\* entries of E within the radius of the target, each exactly once: the same
\* bag of (distance, entry) pairs as a linear scan of E.
C3_QueryEqualsLinearScan ==
    query.asked =>
        BagOfSeq(result) = BagOfSeq(LinearScan(inserted, query.target, query.radius))

\* C3 witness: a query of a three-entry tree with a node below a child of the
\* root, two entries sharing a fingerprint, that returns some entries and
\* leaves out others.
C3_Witness ==
    /\ query.asked
    /\ Len(tree) = 3
    /\ \E n \in DOMAIN tree : n # 1 /\ tree[n].children # <<>>
    /\ \E i, j \in DOMAIN inserted :
        i # j /\ inserted[i].hash_hex = inserted[j].hash_hex
              /\ inserted[i] # inserted[j]
    /\ Len(result) = 2

\* The keys of the live files: those that the enumeration of the configured
\* directories yields.
LiveKeys(fsys, dirs) ==
    UNION {Range(getAllImagePaths(fsys, dirs[i])) : i \in DOMAIN dirs}

\* C1: whenever updateBKTree has completed without error, the entries of the
\* persisted index are exactly the (hash_hex, directory, filename) triples of
\* all rows of the store, whatever their present flag.
C1_IndexEqualsStore ==
    (run.step = "bk" /\ run.err = "none") =>
        /\ bk.file = "ok"
        /\ db.file = "ok"
        /\ TreeItems(bk.tree) = DbImgs(db)

\* C1 witness: updateBKTree rebuilt a stale index over a store of two rows,
\* one of them marked absent.
C1_Witness ==
    /\ run.step = "bk"
    /\ run.err = "none"
    /\ run.bkPath = "mismatch"
    /\ Cardinality(DOMAIN db.rows) = 2
    /\ \E k \in DOMAIN db.rows : ~db.rows[k].present
    /\ TreeItems(bk.tree) = DbImgs(db)

C4_RebuildIsAtomic ==
    [][/\ (pc = "db" /\ run'.dbPath = "build" /\ run'.err # "none") =>
            \/ db' = db
            \/ /\ db'.file = "ok"
               /\ DOMAIN db'.rows = LiveKeys(fs, params.img_dirs)
       /\ (pc = "bk" /\ run'.bkPath \in {"missing", "mismatch"} /\ run'.err # "none") =>
            \/ bk' = bk
            \/ /\ bk'.file = "ok"
               /\ TreeItems(bk'.tree) = DbImgs(db')]_vars

\* C5: a second updateDatabase over the same files with the same parameters
\* leaves the store that the first one left: the same rows with the same
\* hash_hex, filesize and present flag.
C5_UpdateIsIdempotent ==
    (/\ run.step = "db"
     /\ run.err = "none"
     /\ params.operation = "update") =>
        LET again == updateDatabase(params, fs, db)
        IN  /\ again.err = "none"
            /\ again.val = db

\* C5 witness: an incremental update that kept a row marked absent beside a
\* row marked present has completed.
C5_Witness ==
    /\ run.step = "db"
    /\ run.err = "none"
    /\ params.operation = "update"
    /\ run.dbPath = "incremental"
    /\ \E k \in DOMAIN db.rows : ~db.rows[k].present
    /\ \E k \in DOMAIN db.rows : db.rows[k].present

\* C6 as stated: a hashing failure does not abort the pass; the readable
\* live files of the batch have their records in the store when it ends.
C6_HashFailureIsIsolated ==
    (run.step = "db" /\ \E k \in LiveKeys(fs, params.img_dirs) : ~Readable(fs[k])) =>
        (run.err \in {"none", "HashError"} =>
            /\ run.err = "none"
            /\ \A k \in LiveKeys(fs, params.img_dirs) :
                Readable(fs[k]) => k \in DOMAIN db.rows)

\* The files of the directories that buildDatabase has inserted when it
\* reaches the first directory holding an unreadable file.
RECURSIVE KeysBeforeFailure(_, _)
KeysBeforeFailure(fsys, dirs) ==
    IF dirs = <<>> THEN {}
    ELSE LET ks == Range(getAllImagePaths(fsys, Head(dirs)))
         IN  IF \E k \in ks : ~Readable(fsys[k]) THEN {}
             ELSE ks \cup KeysBeforeFailure(fsys, Tail(dirs))

\* C6 amended: a hashing failure aborts the pass at the failing file.
\* updateDatabase then commits nothing (the store is as before the pass);
\* buildDatabase leaves the rows of the directories that precede the failing
\* file's directory, and no other.
C6_HashFailureAbortsPass ==
    [][(pc = "db" /\ run'.err = "HashError") =>
        /\ pc' = "failed"
        /\ run'.dbPath = "incremental" => db' = db
        /\ run'.dbPath = "build" =>
            /\ db'.file = "ok"
            /\ DOMAIN db'.rows = KeysBeforeFailure(fs, params.img_dirs)]_vars

\* C6 witness: a pass was aborted by a hashing failure while a readable live
\* file of the batch has no record in the store.
C6_Witness ==
    /\ pc = "failed"
    /\ run.step = "db"
    /\ run.err = "HashError"
    /\ \E k \in LiveKeys(fs, params.img_dirs) :
        Readable(fs[k]) /\ k \notin DOMAIN db.rows
    /\ db.file = "ok"

\* C7: when hashing a file fails during a sync pass, the pass aborts with the
\* error and the store holds no record for that file.
C7_FailedFileHasNoRecord ==
    (run.step = "db" /\ run.err = "HashError") =>
        /\ pc = "failed"
        /\ run.key \in Keys
        /\ ~Readable(fs[run.key])
        /\ run.key \notin DOMAIN db.rows

\* C7 witness: a build was aborted by a hashing failure after the rows of an
\* earlier directory were committed.
C7_Witness ==
    /\ pc = "failed"
    /\ run.step = "db"
    /\ run.err = "HashError"
    /\ run.dbPath = "build"
    /\ run.key = <<1, 1>>
    /\ DOMAIN db.rows = {<<2, 1>>}

\* C8: when the persisted index exists but does not load, updateBKTree does
\* not abort on it: it rebuilds the index from the store and, when it
\* returns, the index is consistent with the store.
C8_CorruptIndexIsRebuilt ==
    [][(pc = "bk" /\ bk.file = "corrupt" /\ params.cfg = "ok" /\ db.file = "ok") =>
        /\ run'.err # "UnpicklingError"
        /\ run'.err = "none" =>
            /\ bk'.file = "ok"
            /\ TreeItems(bk'.tree) = DbImgs(db')]_vars

\* C9: in a run of main whose configuration lacks a required key, no step
\* creates, deletes or modifies img.db or bk_tree.pkl.
C9_ConfigErrorTouchesNoStore ==
    [][params.cfg \in {"no_hash_method", "no_db_dir", "no_bk_dir",
                       "no_distance_method"} =>
        (db' = db /\ bk' = bk)]_vars

\* C10: a run of main that asks for an unknown hash method or an unknown
\* distance method fails at startup: no step of it changes a store and it
\* never ends normally.
C10_UnknownMethodIsFatalAtStartup ==
    [][params.cfg \in {"bad_hash_method", "bad_distance_method"} =>
        (db' = db /\ bk' = bk /\ pc' # "done")]_vars

\* C11: the search step of a run, in exact mode and in tree mode, whether it
\* succeeds or fails, leaves img.db and bk_tree.pkl as they were before it.
\* (When main reaches searchByImages, updateBKTree has just succeeded, so the
\* index file exists and the branch of searchByImages that builds it is not
\* taken.)
C11_SearchLeavesStoresUnchanged ==
    [][pc = "search" => (db' = db /\ bk' = bk)]_vars

\* A tree-mode search has returned a match, the store and the index in place.
C11_Witness ==
    /\ pc = "done"
    /\ run.step = "search"
    /\ run.searchPath = "tree"
    /\ \E h \in DOMAIN found : found[h] # <<>>
    /\ db.file = "ok"
    /\ bk.file = "ok"

\* The number of bit positions at which two hex digits differ.
BitsDiffer(x, y) ==
    Cardinality({i \in 0..3 : (x \div (2 ^ i)) % 2 # (y \div (2 ^ i)) % 2})

\* The hex digit at position i of s, zero beyond its end.
DigitAt(s, i) == IF i \in DOMAIN s THEN s[i] ELSE 0

RECURSIVE BitSum(_, _, _)
BitSum(a, b, n) ==
    IF n = 0 THEN 0
    ELSE BitSum(a, b, n - 1) + BitsDiffer(DigitAt(a, n), DigitAt(b, n))

\* The Hamming distance of the bits of two hex strings, the shorter one
\* zero-padded on the right.
BitHamming(a, b) == BitSum(a, b, Max(Len(a), Len(b)))

\* The number of characters at which two hex strings differ, a position
\* that only one of them has counting as a difference.
RECURSIVE CharHamming(_, _)
CharHamming(a, b) ==
    IF a = <<>> THEN Len(b)
    ELSE IF b = <<>> THEN Len(a)
    ELSE (IF Head(a) = Head(b) THEN 0 ELSE 1) + CharHamming(Tail(a), Tail(b))

\* C12 as stated: the distance of two fingerprints is the Hamming distance
\* of their decoded bits, the shorter operand zero-padded on the right, so
\* that distance("00", "ff") = 8 and distance("00", "01") = 1.
C12_DistanceIsBitHamming ==
    args # <<>> => dist.ab = BitHamming(args[1], args[2])

\* C12, amended: the distance of two fingerprints is the number of hex
\* characters at which they differ plus the difference of their lengths, so
\* that distance("00", "ff") = 2 and distance("00", "01") = 1.
C12_DistanceIsCharHamming ==
    args # <<>> =>
        /\ dist.ab = CharHamming(args[1], args[2])
        /\ (args[1] = <<0, 0>> /\ args[2] = <<15, 15>>) => dist.ab = 2
        /\ (args[1] = <<0, 0>> /\ args[2] = <<0, 1>>) => dist.ab = 1

\* The distance of "00" and "ff" has been measured.
C12_Witness ==
    /\ args # <<>>
    /\ args[1] = <<0, 0>>
    /\ args[2] = <<15, 15>>
    /\ dist.ab = 2

\* C13: _hamming is a metric on fingerprints of equal and of different
\* lengths: it is symmetric, it is zero between a fingerprint and itself and
\* positive between different fingerprints, and it obeys the triangle
\* inequality.
C13_DistanceIsMetric ==
    args # <<>> =>
        /\ dist.ab = dist.ba
        /\ dist.aa = 0
        /\ dist.ab >= 0
        /\ (dist.ab = 0) <=> (args[1] = args[2])
        /\ dist.ac <= dist.ab + dist.bc

\* Three fingerprints, not all of one length, at positive distances from
\* each other, have been measured.
C13_Witness ==
    /\ args # <<>>
    /\ Len(args[1]) # Len(args[2])
    /\ Len(args[2]) = Len(args[3])
    /\ dist.ab > 0
    /\ dist.bc > 0
    /\ dist.ac = dist.ab + dist.bc

\* C14: a file that had a present record in the store and an entry in the
\* index when an update run with delete_absent started, and that is not
\* among the live files of the run, has no record in the store and no entry
\* in the index when the run has completed updateDatabase and updateBKTree.
C14_AbsentFileIsPurged ==
    (pc = "done" /\ params.operation = "update" /\ params.del_absent) =>
        \A k \in run.had \ LiveKeys(fs, params.img_dirs) :
            /\ k \notin DOMAIN db.rows
            /\ \A e \in TreeItems(bk.tree) : <<e.directory, e.filename>> # k

\* An update run with delete_absent has completed its incremental pass and
\* rebuilt the index, and a file that was recorded and indexed when it
\* started is no longer there.
C14_Witness ==
    /\ pc = "done"
    /\ params.operation = "update"
    /\ params.del_absent
    /\ run.dbPath = "incremental"
    /\ run.bkPath = "mismatch"
    /\ \E k \in run.had : fs[k] = "none" /\ k \notin DOMAIN db.rows

\* C15: whenever a run of main is about to call updateBKTree, whatever its
\* operation and whatever was on disk when it started, img.db exists and
\* holds the image table.
C15_StoreExistsBeforeIndexSync ==
    pc = "bk" => db.file = "ok"

\* The persisted index exists and holds exactly the images of the store.
IndexMatchesStore ==
    /\ bk.file = "ok"
    /\ db.file = "ok"
    /\ TreeItems(bk.tree) = DbImgs(db)

\* C16: updateBKTree rebuilds only when necessary.  When bk_tree.pkl exists
\* and its set of entries equals the store's, the file is left as it is (the
\* shape of the tree included) and the run reports a match; when updateBKTree
\* returns and the file was missing or the sets differed, the file holds a
\* tree built from the store's rows; and it rebuilds in no other case.
C16_RebuildOnlyWhenNecessary ==
    [][pc = "bk" =>
        /\ IndexMatchesStore =>
            (bk' = bk /\ (run'.err = "none" => run'.bkPath = "match"))
        /\ (run'.err = "none" /\ ~IndexMatchesStore) =>
            /\ run'.bkPath = (IF bk.file = "absent" THEN "missing" ELSE "mismatch")
            /\ bk'.file = "ok"
            /\ \E imgs \in Orders(DbImgs(db)) : bk'.tree = BKTree(EmptyTree, imgs)
        /\ run'.bkPath \in {"missing", "mismatch"} => ~IndexMatchesStore]_vars

\* updateBKTree found an index of two entries equal to the store and kept it.
C16_Witness ==
    /\ pc \in {"done", "search"}
    /\ run.step = "bk"
    /\ run.bkPath = "match"
    /\ Len(bk.tree) = 2
    /\ TreeItems(bk.tree) = DbImgs(db)

\* C17: with the index consistent with the store and distance_threshold 0,
\* searchByImages returns for every query fingerprint the same set of
\* locations in exact mode (always_tree false, a SELECT on the store) as in
\* tree mode (a query of radius 0 on the index): what the mode that ran has
\* returned is what the other mode returns on the same store and index.
C17_ExactEqualsTreeAtZero ==
    (pc = "done" /\ run.step = "search" /\ params.distance_threshold = 0) =>
        \A h \in DOMAIN found :
            IF run.searchPath = "exact"
            THEN Range(found[h]) = Range(Locations(findInBKTree(bk.tree, h, 0)))
            ELSE \A imgs \in Orders(DbImgs(db)) :
                    Range(found[h]) = Range(ExactMatches(imgs, h))

\* An exact-mode search has returned two locations for one fingerprint and
\* none for another, the index holding both images.
C17_Witness ==
    /\ pc = "done"
    /\ run.step = "search"
    /\ params.distance_threshold = 0
    /\ run.searchPath = "exact"
    /\ TreeItems(bk.tree) = DbImgs(db)
    /\ \E h \in DOMAIN found : Len(found[h]) = 2
    /\ \E h \in DOMAIN found : found[h] = <<>>

\* C18: the incremental path of updateDatabase is all-or-nothing.  It
\* commits once, after the last file, so when the pass fails, at whichever
\* file and for whichever reason, img.db is what it was before the pass,
\* the present flags included, and the run ends with the failure.
C18_IncrementalPassIsAllOrNothing ==
    [][(pc = "db" /\ run'.dbPath = "incremental" /\ run'.err # "none") =>
        (db' = db /\ pc' = "failed")]_vars

\* An incremental pass has failed on a new file; the store holds a row that
\* is still marked present although its file is not among the live files.
C18_Witness ==
    /\ pc = "failed"
    /\ run.step = "db"
    /\ run.dbPath = "incremental"
    /\ run.key \in LiveKeys(fs, params.img_dirs)
    /\ \E k \in DOMAIN db.rows :
        db.rows[k].present /\ k \notin LiveKeys(fs, params.img_dirs)

\* C19 as stated: whenever img.db exists it holds the image table; no run,
\* a search run started without a store included, leaves an img.db without
\* the table behind.
C19_StoreFileHasTable ==
    db.file # "empty"

\* C20: the incremental path of updateDatabase never changes the fingerprint
\* or the size of a record whose key is already in the store; when the pass
\* completes, the record of a live file is marked present, and that is all,
\* even when the content of the file has changed since it was recorded.
C20_KnownRecordKeepsFingerprint ==
    [][(pc = "db" /\ run'.dbPath = "incremental") =>
        \A k \in DOMAIN db.rows \cap DOMAIN db'.rows :
            /\ db'.rows[k].hash_hex = db.rows[k].hash_hex
            /\ db'.rows[k].filesize = db.rows[k].filesize
            /\ (run'.err = "none" /\ k \in LiveKeys(fs, params.img_dirs))
                => db'.rows[k] = [db.rows[k] EXCEPT !.present = TRUE]]_vars

\* An incremental pass has completed, and the record of a live file holds a
\* fingerprint that is not the one of the file's present content.
C20_Witness ==
    /\ pc = "bk"
    /\ run.dbPath = "incremental"
    /\ \E k \in DOMAIN db.rows \cap LiveKeys(fs, params.img_dirs) :
        /\ Readable(fs[k])
        /\ db.rows[k].hash_hex # HashHex(fs[k])
        /\ db.rows[k].present

====
